---- MODULE Spec2Model ----
(***************************************************************************)
(* Kernel::Process of src/core/hle/kernel/process.cpp: the process         *)
(* lifecycle and its signal (ChangeStatus, Run, PrepareForTermination,     *)
(* ClearSignalState, ShouldWait, Acquire), the TLS slot allocator          *)
(* (FindFreeThreadLocalSlot, MarkNextAvailableTLSSlotAsUsed, FreeTLSSlot), *)
(* the capability descriptor parser (ParseKernelCaps) and LoadModule.      *)
(*                                                                         *)
(* The kernel runs every operation under one serializing section, so an    *)
(* operation is one action; PrepareForTermination, whose intermediate      *)
(* states matter, is a run of steps (pc) that nothing else interleaves.    *)
(* A failed ASSERT / Unwrap aborts the program: pc = "crashed".            *)
(***************************************************************************)
EXTENDS Integers, Sequences, FiniteSets, TLC

(*************************** bounds of the model ***************************)
\* operations performed in one behaviour of Spec (all operations together)
MaxOps == 3
\* operations performed in one behaviour of SpecLife (lifecycle operations)
MaxLifeOps == 4
\* operations performed in one behaviour of SpecTLS (allocate / free)
MaxTLSOps == 11
\* ParseKernelCaps calls in one behaviour of SpecCaps
MaxParses == 2
\* longest descriptor array SpecCaps draws from CapWords
MaxCapsLen == 3

(**************************** program constants ****************************)
\* std::bitset<8>: slots of one TLS page
TLS_SLOTS_PER_PAGE == 8
\* Memory::PAGE_SIZE (core/memory.h)
PAGE_SIZE == 4096
\* Memory::TLS_ENTRY_SIZE (core/memory.h)
TLS_ENTRY_SIZE == 512
\* std::bitset<0x80> svc_access_mask (core/hle/kernel/process.h)
SVC_MASK_SIZE == 128
\* the four execution cores, Scheduler(0) .. Scheduler(3)
NUM_CORES == 4

Cores == 0 .. (NUM_CORES - 1)
Slots == 0 .. (TLS_SLOTS_PER_PAGE - 1)

ProcessStatus == {"Created", "Running", "Exiting", "Exited"}
\* position of a status in the order Created, Running, Exiting, Exited
StatusRank ==
  [s \in ProcessStatus |->
     CASE s = "Created" -> 0 [] s = "Running" -> 1 [] s = "Exiting" -> 2 [] OTHER -> 3]

RESULT_SUCCESS == "RESULT_SUCCESS"
ERR_INVALID_STATE == "ERR_INVALID_STATE"
NoResult == "none"

(******************************* environment *******************************)
\* The threads the four schedulers know, in the order of each thread list.
\* t1..t3 belong to this process, x1 and x2 to another one.
ThreadList ==
  [c \in Cores |->
     CASE c = 0 -> <<"x1", "t1">>
       [] c = 1 -> <<"t2">>
       [] c = 2 -> << >>
       [] OTHER -> <<"t3", "x2">>]
OwnThreads == {"t1", "t2", "t3"}
OtherThreads == {"x1", "x2"}
Threads == OwnThreads \cup OtherThreads
NoThread == "none"
ThreadStatus == {"Running", "Ready", "WaitSynchAny", "WaitSynchAll", "Dead"}

\* threads that may wait on the process object (WaitObject::waiting_threads)
Waiters == {"w1", "w2"}
\* threads that ask for a TLS slot
TlsThreads == {"a", "b"}

\* vm_manager.GetTLSIORegionBaseAddress() / GetTLSIORegionEndAddress()
TLSIORegionBases == {65536, 1048576}
TLSIORegionSize == 16 * PAGE_SIZE
StackSizes == {4096, 8192}
NoAddr == 0 - 1

VARIABLES
  status,          \* Process::status
  is_signaled,     \* Process::is_signaled
  result,          \* ResultCode of the last ClearSignalState
  pc,              \* "idle" | "stop_threads" | "crashed"
  walk,            \* <<core, index>> reached by stop_threads
  caller,          \* GetCurrentThread() of the running PrepareForTermination
  pft_entry,       \* what the last PrepareForTermination found when it was called
  thread_status,   \* Thread::status of every thread
  stop_count,      \* number of Thread::Stop() calls each thread received
  waiting_threads, \* WaitObject::waiting_threads of the process
  wake_count,      \* number of times each waiter was woken by the process
  wakeup_calls,    \* number of WakeupAllWaitingThreads() calls
  main_threads,    \* number of Kernel::SetupMainThread requests
  vm_map,          \* regions mapped through vm_manager
  icache_clears,   \* ClearInstructionCache requests per core
  refreshes,       \* RefreshMemoryBlockMappings requests per TLS backing storage
  requests,        \* calls the last Run, LoadModule or TLS allocation made to
                   \* vm_manager and the cores, in the order it made them
  tls_begin,       \* vm_manager.GetTLSIORegionBaseAddress()
  tls_slots,       \* Process::tls_slots, one set of used slots per page
  tls_memory,      \* pages of each thread's TLS backing storage
  tls_in_use,      \* addresses handed out and not yet freed
  tls_ret,         \* address returned by the last allocation, NoAddr after a free
  tls_before,      \* tls_slots before the last allocation, << >> after a free
  svc_access_mask, \* set of permitted syscall numbers
  handle_table_size,
  flags_raw,
  kernel_version,
  address_mappings,
  kernel_caps,     \* descriptor array the loader hands to ParseKernelCaps
  budget           \* operations the behaviour may still start

lifeVars ==
  <<status, is_signaled, result, pc, walk, caller, pft_entry, thread_status, stop_count,
    waiting_threads, wake_count, wakeup_calls, main_threads>>
signalVars == <<status, is_signaled, waiting_threads, wake_count, wakeup_calls>>
walkVars == <<walk, caller, pft_entry, thread_status, stop_count>>
vmVars == <<vm_map, icache_clears, refreshes, requests>>
tlsVars == <<tls_slots, tls_memory, tls_in_use, tls_ret, tls_before>>
capVars ==
  <<svc_access_mask, handle_table_size, flags_raw, kernel_version, address_mappings>>
vars ==
  <<status, is_signaled, result, pc, walk, caller, pft_entry, thread_status, stop_count,
    waiting_threads, wake_count, wakeup_calls, main_threads, vm_map,
    icache_clears, refreshes, requests, tls_begin, tls_slots, tls_memory, tls_in_use,
    tls_ret,
    tls_before, svc_access_mask, handle_table_size, flags_raw, kernel_version,
    address_mappings, kernel_caps, budget>>


(***************************** small helpers *******************************)
Min(S) == CHOOSE x \in S : \A y \in S : x <= y

\* one operation of the kernel's serializing section starts
StartOp == pc = "idle" /\ budget > 0 /\ budget' = budget - 1

\* a failed ASSERT_MSG / ResultVal::Unwrap: the program aborts
Crash == pc' = "crashed"

(********************** the process as a wait object ***********************)
\* WaitObject::WakeupAllWaitingThreads: every thread waiting on the process
\* is resumed and leaves the list of waiting threads.
WakeupAllWaitingThreads ==
  /\ wake_count' =
       [w \in Waiters |-> IF w \in waiting_threads THEN wake_count[w] + 1 ELSE wake_count[w]]
  /\ waiting_threads' = {}
  /\ wakeup_calls' = wakeup_calls + 1

\* ChangeStatus without the comparison with the current status
ChangeStatus_Unconditional(new_status) ==
  /\ status' = new_status
  /\ is_signaled' = TRUE
  /\ WakeupAllWaitingThreads

\* ChangeStatus that wakes the waiters and leaves is_signaled as it was
ChangeStatus_NoSignal(new_status) ==
  IF status = new_status
    THEN UNCHANGED signalVars
    ELSE /\ status' = new_status
         /\ is_signaled' = is_signaled
         /\ WakeupAllWaitingThreads

\* Process::ChangeStatus (process.cpp 298-306)
ChangeStatus(new_status) ==
  IF status = new_status
    THEN UNCHANGED signalVars
    ELSE /\ status' = new_status
         /\ is_signaled' = TRUE
         /\ WakeupAllWaitingThreads

\* Process::ShouldWait (process.cpp 294-296)
ShouldWait(thread) == ~is_signaled

\* Acquire that consumes the signal, as an auto-reset object would
Acquire_Consuming(thread) ==
  /\ StartOp
  /\ IF ShouldWait(thread) THEN Crash ELSE pc' = pc
  /\ is_signaled' = FALSE
  /\ UNCHANGED <<status, waiting_threads, wake_count, wakeup_calls, result, walkVars,
                 main_threads, vmVars, tls_begin, tlsVars, capVars, kernel_caps>>

\* Process::Acquire (process.cpp 290-292)
Acquire(thread) ==
  /\ StartOp
  /\ IF ShouldWait(thread) THEN Crash ELSE pc' = pc
  /\ UNCHANGED <<signalVars, result, walkVars, main_threads, vmVars, tls_begin,
                 tlsVars, capVars, kernel_caps>>

\* WaitObject::AddWaitingThread, as the wait-synchronization path uses it: a
\* thread that finds ShouldWait true is queued on the process.
AddWaitingThread(thread) ==
  /\ StartOp
  /\ ShouldWait(thread)
  /\ thread \notin waiting_threads
  /\ waiting_threads' = waiting_threads \cup {thread}
  /\ UNCHANGED <<status, is_signaled, wake_count, wakeup_calls, result, pc, walkVars,
                 main_threads, vmVars, tls_begin, tlsVars, capVars, kernel_caps>>

\* ClearSignalState without the check for an exited process
ClearSignalState_NoExitedCheck ==
  /\ StartOp
  /\ IF ~is_signaled
       THEN result' = ERR_INVALID_STATE /\ is_signaled' = is_signaled
       ELSE result' = RESULT_SUCCESS /\ is_signaled' = FALSE
  /\ UNCHANGED <<status, waiting_threads, wake_count, wakeup_calls, pc, walkVars,
                 main_threads, vmVars, tls_begin, tlsVars, capVars, kernel_caps>>

\* Process::ClearSignalState (process.cpp 52-65)
ClearSignalState ==
  /\ StartOp
  /\ IF status = "Exited"
       THEN result' = ERR_INVALID_STATE /\ is_signaled' = is_signaled
       ELSE IF ~is_signaled
         THEN result' = ERR_INVALID_STATE /\ is_signaled' = is_signaled
         ELSE result' = RESULT_SUCCESS /\ is_signaled' = FALSE
  /\ UNCHANGED <<status, waiting_threads, wake_count, wakeup_calls, pc, walkVars,
                 main_threads, vmVars, tls_begin, tlsVars, capVars, kernel_caps>>

\* the calls an operation makes to vm_manager and to the cores
MapRequest(target, backing, offset, size, memory_state, ok) ==
  [call |-> "MapMemoryBlock", target |-> target, backing |-> backing, offset |-> offset,
   size |-> size, state |-> memory_state, ok |-> ok]
ReprotectRequest(target, permissions) ==
  [call |-> "Reprotect", target |-> target, perm |-> permissions]
RefreshRequest(backing) == [call |-> "RefreshMemoryBlockMappings", backing |-> backing]
ClearRequest(core) == [call |-> "ClearInstructionCache", core |-> core]

\* Process::Run (process.cpp 146-160). The stack is mapped at the end of the
\* TLS/IO region; a failed mapping makes Unwrap abort before the status changes.
Run(stack_size, mapped) ==
  /\ StartOp
  /\ requests' =
       <<MapRequest(tls_begin + TLSIORegionSize - stack_size, "stack", 0, stack_size,
                    "Mapped", mapped)>>
  /\ IF mapped
       THEN /\ vm_map' = vm_map \cup
                 {[addr |-> tls_begin + TLSIORegionSize - stack_size, size |-> stack_size,
                   state |-> "Mapped", perm |-> "Default", backing |-> "stack", offset |-> 0]}
            /\ ChangeStatus("Running")
            /\ main_threads' = main_threads + 1
            /\ pc' = pc
       ELSE /\ Crash
            /\ UNCHANGED <<vm_map, signalVars, main_threads>>
  /\ UNCHANGED <<result, walkVars, icache_clears, refreshes, tls_begin, tlsVars, capVars,
                 kernel_caps>>

(************************* PrepareForTermination ***************************)
\* GetCurrentThread(): the thread running on the calling core, if any
CurrentThreadChoices == {NoThread} \cup {t \in Threads : thread_status[t] = "Running"}

\* stop_threads without the owner check
OwnedByThis_Any(t) == TRUE

\* Thread::GetOwnerProcess() == this
OwnedByThis(t) == t \in OwnThreads

\* Thread::Stop(): the thread is dead afterwards
Stop(t) ==
  /\ thread_status' = [thread_status EXCEPT ![t] = "Dead"]
  /\ stop_count' = [stop_count EXCEPT ![t] = @ + 1]

\* the cores whose thread lists stop_threads walks, in order (process.cpp 183-186)
LastCore == NUM_CORES - 1

\* the thread the walk is at
AtThread == walk[2] <= Len(ThreadList[walk[1]])
WalkThread == ThreadList[walk[1]][walk[2]]
Advance == walk' = <<walk[1], walk[2] + 1>>

\* a blocking-wait status (process.cpp 174-175)
IsWaiting(t) == thread_status[t] = "WaitSynchAny" \/ thread_status[t] = "WaitSynchAll"

\* every thread of this process other than the calling one is in a blocking wait
OthersWait(current) == \A t \in OwnThreads : t # current => IsWaiting(t)

\* PrepareForTermination that does not announce Exiting before the walk
PrepareForTermination_NoExiting(current) ==
  /\ StartOp
  /\ current \in CurrentThreadChoices
  /\ pc' = "stop_threads"
  /\ walk' = <<0, 1>>
  /\ caller' = current
  /\ pft_entry' = [status |-> status, wakeups |-> wakeup_calls, stops |-> stop_count,
                   others_wait |-> OthersWait(current)]
  /\ UNCHANGED <<signalVars, result, thread_status, stop_count, main_threads, vmVars,
                 tls_begin, tlsVars, capVars, kernel_caps>>

\* process.cpp 162-163 and 182: ChangeStatus(Exiting), then the walk starts
PrepareForTermination(current) ==
  /\ StartOp
  /\ current \in CurrentThreadChoices
  /\ ChangeStatus("Exiting")
  /\ pc' = "stop_threads"
  /\ walk' = <<0, 1>>
  /\ caller' = current
  /\ pft_entry' = [status |-> status, wakeups |-> wakeup_calls, stops |-> stop_count,
                   others_wait |-> OthersWait(current)]
  /\ UNCHANGED <<result, thread_status, stop_count, main_threads, vmVars, tls_begin,
                 tlsVars, capVars, kernel_caps>>

\* process.cpp 167-171: another process's thread, or the calling thread
StopThreads_Skip ==
  /\ pc = "stop_threads" /\ walk[1] <= LastCore /\ AtThread
  /\ (~OwnedByThis(WalkThread) \/ WalkThread = caller)
  /\ Advance
  /\ UNCHANGED <<signalVars, result, pc, caller, pft_entry, thread_status, stop_count,
                 main_threads,
                 vmVars, tls_begin, tlsVars, capVars, kernel_caps, budget>>

\* an assertion that only logs: the thread is stopped and the walk goes on
StopThreads_Fatal_Continues ==
  /\ pc = "stop_threads" /\ walk[1] <= LastCore /\ AtThread
  /\ OwnedByThis(WalkThread) /\ WalkThread # caller
  /\ ~IsWaiting(WalkThread)
  /\ Stop(WalkThread)
  /\ Advance
  /\ UNCHANGED <<signalVars, result, pc, caller, pft_entry, main_threads, vmVars, tls_begin,
                 tlsVars, capVars, kernel_caps, budget>>

\* process.cpp 174-176: the assertion fails on a thread that is not waiting
StopThreads_Fatal ==
  /\ pc = "stop_threads" /\ walk[1] <= LastCore /\ AtThread
  /\ OwnedByThis(WalkThread) /\ WalkThread # caller
  /\ ~IsWaiting(WalkThread)
  /\ Crash
  /\ UNCHANGED <<signalVars, result, walkVars, main_threads, vmVars, tls_begin, tlsVars,
                 capVars, kernel_caps, budget>>

\* process.cpp 174-178: a waiting thread of this process is stopped
StopThreads_Stop ==
  /\ pc = "stop_threads" /\ walk[1] <= LastCore /\ AtThread
  /\ OwnedByThis(WalkThread) /\ WalkThread # caller
  /\ IsWaiting(WalkThread)
  /\ Stop(WalkThread)
  /\ Advance
  /\ UNCHANGED <<signalVars, result, pc, caller, pft_entry, main_threads, vmVars, tls_begin, tlsVars,
                 capVars, kernel_caps, budget>>

\* process.cpp 183-186: one list is done, the next core's list follows
StopThreads_NextCore ==
  /\ pc = "stop_threads" /\ walk[1] <= LastCore /\ ~AtThread
  /\ walk' = <<walk[1] + 1, 1>>
  /\ UNCHANGED <<signalVars, result, pc, caller, pft_entry, thread_status, stop_count,
                 main_threads,
                 vmVars, tls_begin, tlsVars, capVars, kernel_caps, budget>>

\* process.cpp 188: all lists are done, ChangeStatus(Exited)
PrepareForTermination_Exit ==
  /\ pc = "stop_threads" /\ walk[1] > LastCore
  /\ ChangeStatus("Exited")
  /\ pc' = "idle"
  /\ UNCHANGED <<result, walkVars, main_threads, vmVars, tls_begin, tlsVars, capVars,
                 kernel_caps, budget>>


(****************************** TLS allocator ******************************)
\* std::bitset<8>::all()
AllSlotsUsed(page_tls_slots) == page_tls_slots = Slots

\* a scan that keeps the last page with a free slot instead of the first
FindFreeThreadLocalSlot_LastPage(slots) ==
  LET pages == {page \in 0 .. (Len(slots) - 1) : ~AllSlotsUsed(slots[page + 1])}
  IN IF pages = {}
       THEN <<0, 0, TRUE>>
       ELSE LET page == CHOOSE x \in pages : \A y \in pages : x >= y
            IN <<page, Min(Slots \ slots[page + 1]), FALSE>>

\* FindFreeThreadLocalSlot (process.cpp 199-215): <<page, slot, alloc_needed>>,
\* pages counted from 0 (tls_slots[page] of the code is slots[page + 1] here)
FindFreeThreadLocalSlot(slots) ==
  LET pages == {page \in 0 .. (Len(slots) - 1) : ~AllSlotsUsed(slots[page + 1])}
  IN IF pages = {}
       THEN <<0, 0, TRUE>>
       ELSE LET page == Min(pages)
            IN <<page, Min(Slots \ slots[page + 1]), FALSE>>

\* the address of a slot (process.cpp 238)
TLSAddress(page, slot) == tls_begin + page * PAGE_SIZE + slot * TLS_ENTRY_SIZE

\* Process::MarkNextAvailableTLSSlotAsUsed (process.cpp 217-239)
MarkNextAvailableTLSSlotAsUsed(thread) ==
  LET found == FindFreeThreadLocalSlot(tls_slots)
      needs_allocation == found[3]
      grown == IF needs_allocation THEN Append(tls_slots, {}) ELSE tls_slots
      available_page == IF needs_allocation THEN Len(grown) - 1 ELSE found[1]
      available_slot == IF needs_allocation THEN 0 ELSE found[2]
  IN /\ StartOp
     /\ pc' = pc
     /\ IF needs_allocation
          THEN /\ tls_memory' = [tls_memory EXCEPT ![thread] = @ + 1]
               /\ refreshes' = [refreshes EXCEPT ![thread] = @ + 1]
               /\ vm_map' = vm_map \cup
                    {[addr |-> tls_begin + available_page * PAGE_SIZE, size |-> PAGE_SIZE,
                      state |-> "ThreadLocal", perm |-> "Default", backing |-> thread,
                      offset |-> 0]}
               /\ requests' =
                    <<RefreshRequest(thread),
                      MapRequest(tls_begin + available_page * PAGE_SIZE, thread, 0, PAGE_SIZE,
                                 "ThreadLocal", TRUE)>>
          ELSE /\ requests' = << >>
               /\ UNCHANGED <<tls_memory, refreshes, vm_map>>
     /\ tls_slots' = [grown EXCEPT ![available_page + 1] = @ \cup {available_slot}]
     /\ tls_ret' = TLSAddress(available_page, available_slot)
     /\ tls_in_use' = tls_in_use \cup {TLSAddress(available_page, available_slot)}
     /\ tls_before' = tls_slots
     /\ UNCHANGED <<signalVars, result, walkVars, main_threads, icache_clears, tls_begin,
                    capVars, kernel_caps>>

\* the page rounded up instead of down
TLSPageOf_RoundUp(tls_address) == (tls_address - tls_begin + PAGE_SIZE - 1) \div PAGE_SIZE
\* the slot without the reduction modulo the page size
TLSSlotOf_NoModulo(tls_address) == (tls_address - tls_begin) \div TLS_ENTRY_SIZE

\* the inverse address arithmetic of FreeTLSSlot (process.cpp 242-244)
TLSPageOf(tls_address) == (tls_address - tls_begin) \div PAGE_SIZE
TLSSlotOf(tls_address) == ((tls_address - tls_begin) % PAGE_SIZE) \div TLS_ENTRY_SIZE

\* a free that drops the last page once it has no used slot
FreeTLSSlot_Compacting(tls_address) ==
  LET cleared ==
        [tls_slots EXCEPT ![TLSPageOf(tls_address) + 1] = @ \ {TLSSlotOf(tls_address)}]
  IN /\ StartOp
     /\ pc' = pc
     /\ tls_address \in tls_in_use
     /\ tls_slots' = IF cleared[Len(cleared)] = {}
                       THEN SubSeq(cleared, 1, Len(cleared) - 1)
                       ELSE cleared
     /\ tls_in_use' = tls_in_use \ {tls_address}
     /\ tls_ret' = NoAddr
     /\ tls_before' = << >>
     /\ UNCHANGED <<signalVars, result, walkVars, main_threads, vmVars, tls_begin, tls_memory,
                    capVars, kernel_caps>>

\* Process::FreeTLSSlot (process.cpp 241-247), called with an address that a
\* thread holds
FreeTLSSlot(tls_address) ==
  /\ StartOp
  /\ pc' = pc
  /\ tls_address \in tls_in_use
  /\ tls_slots' = [tls_slots EXCEPT ![TLSPageOf(tls_address) + 1] = @ \ {TLSSlotOf(tls_address)}]
  /\ tls_in_use' = tls_in_use \ {tls_address}
  /\ tls_ret' = NoAddr
  /\ tls_before' = << >>
  /\ UNCHANGED <<signalVars, result, walkVars, main_threads, vmVars, tls_begin, tls_memory,
                 capVars, kernel_caps>>


(************************** capability descriptors *************************)
\* A u32 descriptor is kept as its two fields: type = descriptor >> 20 (12
\* bits) and low = descriptor & 0xFFFFF (20 bits).
Descriptor(type, low) == [type |-> type, low |-> low]

RECURSIVE BitAnd_AsOr(_, _)
\* a | b in the place of a & b
BitAnd_AsOr(a, b) ==
  IF a = 0 /\ b = 0
    THEN 0
    ELSE (IF a % 2 = 1 \/ b % 2 = 1 THEN 1 ELSE 0) + 2 * BitAnd_AsOr(a \div 2, b \div 2)

RECURSIVE BitAnd(_, _)
\* a & b on naturals
BitAnd(a, b) ==
  IF a = 0 \/ b = 0
    THEN 0
    ELSE (a % 2) * (b % 2) + 2 * BitAnd(a \div 2, b \div 2)

\* descriptor == 0xFFFFFFFF
IsUnused(d) == d.type = 4095 /\ d.low = 1048575
\* descriptor & 0xFFFFFF
Low24(d) == (d.type % 16) * 1048576 + d.low
\* (u32)(descriptor << 12): the twelve type bits are shifted out
ShiftedAddress(d) == d.low * 4096
\* a test of bit 21 in the place of bit 20
Bit20_Bit21(d) == (d.type \div 2) % 2 = 1
\* (descriptor & (1 << 20)) != 0
Bit20(d) == d.type % 2 = 1

\* a loop over all 24 bits of the field, zero remainder or not
SetSvcBits_WholeField(mask, index, bits) ==
  (mask \ {index + k : k \in {j \in 0 .. 23 : index + j < SVC_MASK_SIZE}})
    \cup {index + k : k \in {j \in 0 .. 23 : index + j < SVC_MASK_SIZE /\ (bits \div (2 ^ j)) % 2 = 1}}

RECURSIVE SetSvcBits(_, _, _)
\* the while loop of the syscall mask descriptor (process.cpp 90-94)
SetSvcBits(mask, index, bits) ==
  IF bits # 0 /\ index < SVC_MASK_SIZE
    THEN SetSvcBits(IF bits % 2 = 1 THEN mask \cup {index} ELSE mask \ {index},
                    index + 1, bits \div 2)
    ELSE mask

\* the capability state ParseKernelCaps works on
CapsOf(mask, size, raw, version, mappings) ==
  [svc_access_mask |-> mask, handle_table_size |-> size, flags_raw |-> raw,
   kernel_version |-> version, address_mappings |-> mappings]

RECURSIVE ParseFrom_StopAtUnused(_, _, _)
\* the loop with a break, not a continue, at an unused entry
ParseFrom_StopAtUnused(caps, i, st) ==
  IF i > Len(caps)
    THEN st
    ELSE
      LET descriptor == caps[i]
          type == descriptor.type
      IN IF IsUnused(descriptor)
           THEN st
         ELSE IF BitAnd(type, 3840) = 3584      \* (type & 0xF00) == 0xE00
           THEN ParseFrom_StopAtUnused(caps, i + 1, st)
         ELSE IF BitAnd(type, 3968) = 3840      \* (type & 0xF80) == 0xF00
           THEN ParseFrom_StopAtUnused(caps, i + 1,
                  [st EXCEPT !.svc_access_mask =
                     SetSvcBits(@, ((type \div 16) % 8) * 24, Low24(descriptor))])
         ELSE IF BitAnd(type, 4080) = 4064      \* (type & 0xFF0) == 0xFE0
           THEN ParseFrom_StopAtUnused(caps, i + 1,
                  [st EXCEPT !.handle_table_size = descriptor.low % 1024])
         ELSE IF BitAnd(type, 4088) = 4080      \* (type & 0xFF8) == 0xFF0
           THEN ParseFrom_StopAtUnused(caps, i + 1, [st EXCEPT !.flags_raw = descriptor.low % 65536])
         ELSE IF BitAnd(type, 4094) = 4088      \* (type & 0xFFE) == 0xFF8
           THEN IF i + 1 > Len(caps) \/ BitAnd(caps[i + 1].type, 4094) # 4088
                  THEN ParseFrom_StopAtUnused(caps, i + 1, st)
                  ELSE
                    LET end_desc == caps[i + 1]
                        address == ShiftedAddress(descriptor)
                        end_address == ShiftedAddress(end_desc)
                        mapping ==
                          [address |-> address,
                           size |-> IF address < end_address THEN end_address - address ELSE 0,
                           read_only |-> Bit20(descriptor),
                           unk_flag |-> Bit20(end_desc)]
                    IN ParseFrom_StopAtUnused(caps, i + 2,
                         [st EXCEPT !.address_mappings = Append(@, mapping)])
         ELSE IF BitAnd(type, 4095) = 4094      \* (type & 0xFFF) == 0xFFE
           THEN ParseFrom_StopAtUnused(caps, i + 1,
                  [st EXCEPT !.address_mappings =
                     Append(@, [address |-> ShiftedAddress(descriptor), size |-> PAGE_SIZE,
                                read_only |-> FALSE, unk_flag |-> FALSE])])
         ELSE IF BitAnd(type, 4064) = 4032      \* (type & 0xFE0) == 0xFC0
           THEN ParseFrom_StopAtUnused(caps, i + 1, [st EXCEPT !.kernel_version = descriptor.low % 65536])
         ELSE ParseFrom_StopAtUnused(caps, i + 1, st)

RECURSIVE ParseFrom(_, _, _)
\* the for loop of Process::ParseKernelCaps (process.cpp 75-143) from index i
\* (counted from 1) on
ParseFrom(caps, i, st) ==
  IF i > Len(caps)
    THEN st
    ELSE
      LET descriptor == caps[i]
          type == descriptor.type
      IN IF IsUnused(descriptor)
           THEN ParseFrom(caps, i + 1, st)
         ELSE IF BitAnd(type, 3840) = 3584      \* (type & 0xF00) == 0xE00
           THEN ParseFrom(caps, i + 1, st)
         ELSE IF BitAnd(type, 3968) = 3840      \* (type & 0xF80) == 0xF00
           THEN ParseFrom(caps, i + 1,
                  [st EXCEPT !.svc_access_mask =
                     SetSvcBits(@, ((type \div 16) % 8) * 24, Low24(descriptor))])
         ELSE IF BitAnd(type, 4080) = 4064      \* (type & 0xFF0) == 0xFE0
           THEN ParseFrom(caps, i + 1,
                  [st EXCEPT !.handle_table_size = descriptor.low % 1024])
         ELSE IF BitAnd(type, 4088) = 4080      \* (type & 0xFF8) == 0xFF0
           THEN ParseFrom(caps, i + 1, [st EXCEPT !.flags_raw = descriptor.low % 65536])
         ELSE IF BitAnd(type, 4094) = 4088      \* (type & 0xFFE) == 0xFF8
           THEN IF i + 1 > Len(caps) \/ BitAnd(caps[i + 1].type, 4094) # 4088
                  THEN ParseFrom(caps, i + 1, st)
                  ELSE
                    LET end_desc == caps[i + 1]
                        address == ShiftedAddress(descriptor)
                        end_address == ShiftedAddress(end_desc)
                        mapping ==
                          [address |-> address,
                           size |-> IF address < end_address THEN end_address - address ELSE 0,
                           read_only |-> Bit20(descriptor),
                           unk_flag |-> Bit20(end_desc)]
                    IN ParseFrom(caps, i + 2,
                         [st EXCEPT !.address_mappings = Append(@, mapping)])
         ELSE IF BitAnd(type, 4095) = 4094      \* (type & 0xFFF) == 0xFFE
           THEN ParseFrom(caps, i + 1,
                  [st EXCEPT !.address_mappings =
                     Append(@, [address |-> ShiftedAddress(descriptor), size |-> PAGE_SIZE,
                                read_only |-> FALSE, unk_flag |-> FALSE])])
         ELSE IF BitAnd(type, 4064) = 4032      \* (type & 0xFE0) == 0xFC0
           THEN ParseFrom(caps, i + 1, [st EXCEPT !.kernel_version = descriptor.low % 65536])
         ELSE ParseFrom(caps, i + 1, st)

\* Process::ParseKernelCaps (process.cpp 74-144) on the loader's array
ParseKernelCaps ==
  LET st == ParseFrom(kernel_caps, 1,
              CapsOf(svc_access_mask, handle_table_size, flags_raw, kernel_version,
                     address_mappings))
  IN /\ StartOp
     /\ pc' = pc
     /\ svc_access_mask' = st.svc_access_mask
     /\ handle_table_size' = st.handle_table_size
     /\ flags_raw' = st.flags_raw
     /\ kernel_version' = st.kernel_version
     /\ address_mappings' = st.address_mappings
     /\ UNCHANGED <<signalVars, result, walkVars, main_threads, vmVars, tls_begin, tlsVars,
                    kernel_caps>>

\* descriptor arrays a loader may hand over
SyscallsDescriptor == Descriptor(3840, 5)         \* 0xF0000005: group 0, bits 0 and 2
HandleTableDescriptor == Descriptor(4064, 512)    \* 0xFE000200
RangeStartDescriptor == Descriptor(4089, 16)      \* 0xFF900010
RangeEndDescriptor == Descriptor(4088, 32)        \* 0xFF800020
UnusedDescriptor == Descriptor(4095, 1048575)     \* 0xFFFFFFFF
KernelVersionDescriptor == Descriptor(4032, 515)  \* 0xFC000203
KernelCapsSamples ==
  { << >>,
    <<SyscallsDescriptor, UnusedDescriptor, HandleTableDescriptor>>,
    <<RangeStartDescriptor, RangeEndDescriptor, KernelVersionDescriptor>> }

\* the descriptors SpecCaps builds its arrays from
SyscallsAgainDescriptor == Descriptor(3840, 7)    \* 0xF0000007: group 0, bits 0..2
SyscallsTopDescriptor == Descriptor(3920, 513)    \* 0xF5000201: group 5, bits 0 and 9
HandleTableWideDescriptor == Descriptor(4064, 2047) \* 0xFE0007FF
FlagsDescriptor == Descriptor(4080, 74565)        \* 0xFF012345
PageDescriptor == Descriptor(4094, 48)            \* 0xFFE00030
CapWords ==
  { UnusedDescriptor, SyscallsDescriptor, SyscallsAgainDescriptor, SyscallsTopDescriptor,
    HandleTableWideDescriptor, FlagsDescriptor, RangeStartDescriptor, RangeEndDescriptor,
    PageDescriptor, KernelVersionDescriptor }
\* every array of at most MaxCapsLen of them
CapsInputs == UNION {[1 .. n -> CapWords] : n \in 0 .. MaxCapsLen}
\* one descriptor of every 12-bit type, with an empty and a non-empty low field
TypeProbes == {<<Descriptor(type, low)>> : type \in 0 .. 4095, low \in {0, 515}}

(******************************* LoadModule ********************************)
\* a CodeSet: three segments {addr, offset, size} over one memory block
CodeSets ==
  { [code |-> [addr |-> 0, offset |-> 0, size |-> 8192],
     rodata |-> [addr |-> 8192, offset |-> 8192, size |-> 4096],
     data |-> [addr |-> 12288, offset |-> 12288, size |-> 4096]] }
BaseAddresses == {2097152, 4194304}

\* the segment mapped at its own address, the base address left out
MapSegment_NoBase(segment, base_addr, permissions, memory_state) ==
  [addr |-> segment.addr, size |-> segment.size, state |-> memory_state,
   perm |-> permissions, backing |-> "module", offset |-> segment.offset]

\* the region MapSegment leaves behind (process.cpp 250-257)
MapSegment(segment, base_addr, permissions, memory_state) ==
  [addr |-> segment.addr + base_addr, size |-> segment.size, state |-> memory_state,
   perm |-> permissions, backing |-> "module", offset |-> segment.offset]

RECURSIVE SegmentRequests(_, _, _)
\* MapMemoryBlock then Reprotect for the segments k .. done (process.cpp 253-256)
SegmentRequests(segments, k, done) ==
  IF k > done
    THEN << >>
    ELSE <<MapRequest(segments[k].addr, "module", segments[k].offset, segments[k].size,
                      segments[k].state, TRUE),
           ReprotectRequest(segments[k].addr, segments[k].perm)>>
           \o SegmentRequests(segments, k + 1, done)

\* the instruction caches cleared first, the segments mapped after that
LoadModule_ClearsFirst(module_, base_addr, failed) ==
  LET segments ==
        << MapSegment(module_.code, base_addr, "ReadExecute", "CodeStatic"),
           MapSegment(module_.rodata, base_addr, "Read", "CodeMutable"),
           MapSegment(module_.data, base_addr, "ReadWrite", "CodeMutable") >>
      done == IF failed = 0 THEN 3 ELSE failed - 1
  IN /\ StartOp
     /\ vm_map' = vm_map \cup {segments[k] : k \in 1 .. done}
     /\ requests' =
          [c \in 1 .. NUM_CORES |-> ClearRequest(c - 1)]
            \o SegmentRequests(segments, 1, done)
            \o (IF failed = 0
                  THEN << >>
                  ELSE <<MapRequest(segments[failed].addr, "module", segments[failed].offset,
                                    segments[failed].size, segments[failed].state, FALSE)>>)
     /\ icache_clears' = [c \in Cores |-> icache_clears[c] + 1]
     /\ IF failed = 0 THEN pc' = pc ELSE Crash
     /\ UNCHANGED <<signalVars, result, walkVars, main_threads, refreshes, tls_begin,
                    tlsVars, capVars, kernel_caps>>

\* Process::LoadModule (process.cpp 249-269). failed = 0: every mapping
\* succeeds; failed = k: the k-th MapMemoryBlock fails and Unwrap aborts.
LoadModule(module_, base_addr, failed) ==
  LET segments ==
        << MapSegment(module_.code, base_addr, "ReadExecute", "CodeStatic"),
           MapSegment(module_.rodata, base_addr, "Read", "CodeMutable"),
           MapSegment(module_.data, base_addr, "ReadWrite", "CodeMutable") >>
      done == IF failed = 0 THEN 3 ELSE failed - 1
  IN /\ StartOp
     /\ vm_map' = vm_map \cup {segments[k] : k \in 1 .. done}
     /\ requests' =
          SegmentRequests(segments, 1, done)
            \o (IF failed = 0
                  THEN [c \in 1 .. NUM_CORES |-> ClearRequest(c - 1)]
                  ELSE <<MapRequest(segments[failed].addr, "module", segments[failed].offset,
                                    segments[failed].size, segments[failed].state, FALSE)>>)
     /\ IF failed = 0
          THEN /\ icache_clears' = [c \in Cores |-> icache_clears[c] + 1]
               /\ pc' = pc
          ELSE /\ Crash
               /\ UNCHANGED icache_clears
     /\ UNCHANGED <<signalVars, result, walkVars, main_threads, refreshes, tls_begin,
                    tlsVars, capVars, kernel_caps>>

(********************************* Init ************************************)
\* at most one thread runs on a core
OneRunningPerCore(ts) ==
  \A c \in Cores :
    Cardinality({k \in 1 .. Len(ThreadList[c]) : ts[ThreadList[c][k]] = "Running"}) <= 1

\* the process right after Process::Create (process.cpp 27-46), in a system
\* whose threads have the statuses ts
Created(ts, base, caps, ops) ==
  /\ status = "Created"
  /\ is_signaled = FALSE
  /\ result = NoResult
  /\ pc = "idle"
  /\ walk = <<0, 1>>
  /\ caller = NoThread
  /\ pft_entry = [status |-> "none", wakeups |-> 0, stops |-> [t \in Threads |-> 0],
                  others_wait |-> FALSE]
  /\ thread_status = ts
  /\ stop_count = [t \in Threads |-> 0]
  /\ waiting_threads = {}
  /\ wake_count = [w \in Waiters |-> 0]
  /\ wakeup_calls = 0
  /\ main_threads = 0
  /\ vm_map = {}
  /\ requests = << >>
  /\ icache_clears = [c \in Cores |-> 0]
  /\ refreshes = [t \in TlsThreads |-> 0]
  /\ tls_begin = base
  /\ tls_slots = << >>
  /\ tls_memory = [t \in TlsThreads |-> 0]
  /\ tls_in_use = {}
  /\ tls_ret = NoAddr
  /\ tls_before = << >>
  /\ svc_access_mask = 0 .. (SVC_MASK_SIZE - 1)
  /\ handle_table_size = 512
  /\ flags_raw = 256
  /\ kernel_version = 0
  /\ address_mappings = << >>
  /\ kernel_caps = caps
  /\ budget = ops

\* thread statuses of the lifecycle runs: this process's threads wait, run or
\* are ready; x1 runs or is ready, x2 waits
LifeThreadStatuses ==
  {ts \in [Threads -> ThreadStatus] :
     /\ \A t \in OwnThreads : ts[t] # "Dead"
     /\ ts["x1"] \in {"Running", "Ready"}
     /\ ts["x2"] = "WaitSynchAny"
     /\ OneRunningPerCore(ts)}

\* t1 runs and calls; the others wait (Waiting) or t2 is ready (Busy)
WaitingThreads ==
  [t \in Threads |->
     CASE t = "t1" -> "Running" [] t = "t2" -> "WaitSynchAny" [] t = "t3" -> "WaitSynchAll"
       [] t = "x1" -> "Ready" [] OTHER -> "WaitSynchAny"]
BusyThreads == [WaitingThreads EXCEPT !["t2"] = "Ready"]

Init ==
  \E ts \in {WaitingThreads, BusyThreads}, caps \in KernelCapsSamples :
    Created(ts, 65536, caps, MaxOps)

InitLife == \E ts \in LifeThreadStatuses : Created(ts, 65536, << >>, MaxLifeOps)

InitTLS == \E base \in TLSIORegionBases : Created(WaitingThreads, base, << >>, MaxTLSOps)

InitCaps ==
  \E caps \in CapsInputs \cup TypeProbes : Created(WaitingThreads, 65536, caps, MaxParses)

(********************************* Next ************************************)
Next ==
  \/ \E stack_size \in StackSizes, mapped \in BOOLEAN : Run(stack_size, mapped)
  \/ \E current \in Threads \cup {NoThread} : PrepareForTermination(current)
  \/ StopThreads_Skip
  \/ StopThreads_Fatal
  \/ StopThreads_Stop
  \/ StopThreads_NextCore
  \/ PrepareForTermination_Exit
  \/ ClearSignalState
  \/ \E thread \in Waiters : Acquire(thread)
  \/ \E thread \in Waiters : AddWaitingThread(thread)
  \/ \E thread \in TlsThreads : MarkNextAvailableTLSSlotAsUsed(thread)
  \/ \E tls_address \in tls_in_use : FreeTLSSlot(tls_address)
  \/ ParseKernelCaps
  \/ \E module_ \in CodeSets, base_addr \in BaseAddresses, failed \in 0 .. 3 :
       LoadModule(module_, base_addr, failed)

NextLife ==
  \/ \E stack_size \in StackSizes, mapped \in BOOLEAN : Run(stack_size, mapped)
  \/ \E current \in Threads \cup {NoThread} : PrepareForTermination(current)
  \/ StopThreads_Skip
  \/ StopThreads_Fatal
  \/ StopThreads_Stop
  \/ StopThreads_NextCore
  \/ PrepareForTermination_Exit
  \/ ClearSignalState
  \/ \E thread \in Waiters : Acquire(thread)
  \/ \E thread \in Waiters : AddWaitingThread(thread)

NextTLS ==
  \/ \E thread \in TlsThreads : MarkNextAvailableTLSSlotAsUsed(thread)
  \/ \E tls_address \in tls_in_use : FreeTLSSlot(tls_address)

NextCaps == ParseKernelCaps

Spec == Init /\ [][Next]_vars
SpecLife == InitLife /\ [][NextLife]_vars
SpecTLS == InitTLS /\ [][NextTLS]_vars
SpecCaps == InitCaps /\ [][NextCaps]_vars

TypeOK ==
  /\ status \in ProcessStatus
  /\ is_signaled \in BOOLEAN
  /\ pc \in {"idle", "stop_threads", "crashed"}
  /\ budget \in Nat

(******************************** claims ***********************************)
\* a step that asks ChangeStatus for new_status
RequestsStatus(new_status) ==
  CASE new_status = "Running" -> \E stack_size \in StackSizes : Run(stack_size, TRUE)
    [] new_status = "Exiting" -> \E current \in Threads \cup {NoThread} :
                                   PrepareForTermination(current)
    [] new_status = "Exited" -> PrepareForTermination_Exit
    [] OTHER -> FALSE

\* C1: status only moves forward in the order Created, Running, Exiting,
\* Exited: no step takes it to an earlier status than the one it had.
C1_StatusNeverMovesBack == [][StatusRank[status'] >= StatusRank[status]]_vars

\* C2: a status change request for a status other than the current one sets
\* is_signaled and wakes every waiting thread exactly once; a request for the
\* current status changes neither status nor is_signaled and wakes nobody.
C2_ChangeSignalsAndWakesOnce ==
  [][\A new_status \in ProcessStatus :
       RequestsStatus(new_status) =>
         IF status # new_status
           THEN /\ status' = new_status
                /\ is_signaled'
                /\ wakeup_calls' = wakeup_calls + 1
                /\ waiting_threads' = {}
                /\ \A w \in Waiters :
                     wake_count'[w] = wake_count[w] + (IF w \in waiting_threads THEN 1 ELSE 0)
           ELSE UNCHANGED <<status, is_signaled, wakeup_calls, waiting_threads, wake_count>>]_vars

\* C2 witness: Run was called twice, and the one status change woke a waiter once
C2_Witness ==
  main_threads = 2 /\ wakeup_calls = 1 /\ \E w \in Waiters : wake_count[w] = 1

\* C3: clear_signal returns InvalidState and changes neither status nor
\* is_signaled when status is Exited or is_signaled is false; otherwise it
\* returns success, clears is_signaled and leaves status alone.
C3_ClearSignalState ==
  [][ClearSignalState =>
       IF status = "Exited" \/ ~is_signaled
         THEN result' = ERR_INVALID_STATE /\ status' = status /\ is_signaled' = is_signaled
         ELSE result' = RESULT_SUCCESS /\ status' = status /\ ~is_signaled']_vars

\* C3 witness: the signal of an exited process survived a rejected clear
C3_Witness == status = "Exited" /\ is_signaled /\ result = ERR_INVALID_STATE

\* C4: is_signaled goes from true to false only in a successful clear_signal.
C4_OnlyClearUnsignals ==
  [][(is_signaled /\ ~is_signaled') => (ClearSignalState /\ result' = RESULT_SUCCESS)]_vars

\* C4 witness: still signaled after a TLS allocation and a capability parse
C4_Witness ==
  is_signaled /\ tls_slots # << >> /\ address_mappings # << >> /\ pc = "idle"

\* the call in progress (or the last one) started in Created or Running with
\* every other thread of the process in a blocking wait
C5_Case == pft_entry.status \in {"Created", "Running"} /\ pft_entry.others_wait

\* the threads PrepareForTermination has to stop
Qualifying == {t \in OwnThreads : t # caller}

\* C5: from Created or Running with all other threads waiting, one
\* prepare_for_termination is Exiting (one wake-up) while threads are stopped,
\* never takes the fatal path, and becomes Exited only when every qualifying
\* thread is stopped, ending Exited and signaled after a second wake-up.
C5_TerminationOrder ==
  [][C5_Case' =>
       /\ (pc' = "stop_threads" =>
             /\ status' = "Exiting"
             /\ is_signaled'
             /\ wakeup_calls' = pft_entry'.wakeups + 1)
       /\ ((\E current \in Threads \cup {NoThread} : PrepareForTermination(current)) =>
             stop_count' = stop_count /\ thread_status' = thread_status)
       /\ ~StopThreads_Fatal
       /\ (PrepareForTermination_Exit =>
             /\ \A t \in Qualifying : thread_status[t] = "Dead" /\ stop_count[t] > pft_entry.stops[t]
             /\ status' = "Exited"
             /\ is_signaled'
             /\ wakeup_calls' = pft_entry.wakeups + 2)
       /\ (status' = "Exited" /\ status # "Exited" => PrepareForTermination_Exit)]_vars

\* C5 witness: such a call has completed and stopped t2 and t3
C5_Witness ==
  /\ C5_Case /\ pc = "idle" /\ status = "Exited" /\ is_signaled
  /\ caller = "t1" /\ stop_count["t2"] = 1 /\ stop_count["t3"] = 1

\* C6: prepare_for_termination never stops or changes a thread of another
\* process nor the calling thread, and when it completes every thread of this
\* process other than the caller has been stopped exactly once.
C6_StopsExactlyOwnThreads ==
  [][/\ \A t \in Threads :
          (stop_count'[t] # stop_count[t] \/ thread_status'[t] # thread_status[t]) =>
            t \in OwnThreads /\ t # caller /\ pc = "stop_threads"
     /\ (PrepareForTermination_Exit =>
           \A t \in Threads :
             stop_count'[t] = pft_entry.stops[t] + (IF t \in Qualifying THEN 1 ELSE 0))]_vars

\* C6 witness: a completed call by t1 stopped t2 and t3 once, and nobody else
C6_Witness ==
  /\ pc = "idle" /\ status = "Exited" /\ caller = "t1"
  /\ stop_count = [t \in Threads |-> IF t \in {"t2", "t3"} THEN 1 ELSE 0]
  /\ thread_status["t1"] = "Running" /\ thread_status["x2"] = "WaitSynchAny"

\* the walk is at a thread of this process, not the caller, that is not waiting
AtNonWaitingThread ==
  /\ pc = "stop_threads" /\ walk[1] <= LastCore /\ AtThread
  /\ WalkThread \in OwnThreads /\ WalkThread # caller
  /\ thread_status[WalkThread] \notin {"WaitSynchAny", "WaitSynchAll"}

\* C7: at a thread of this process, other than the caller, that is not in a
\* blocking wait, prepare_for_termination takes the fatal path: the thread is
\* not stopped, no later thread is processed, status does not become Exited.
C7_FatalOnNonWaitingThread ==
  [][/\ AtNonWaitingThread =>
          /\ pc' = "crashed"
          /\ UNCHANGED <<thread_status, stop_count, walk, status>>
          /\ status' # "Exited"
     /\ pc # "crashed"]_vars

\* C7 witness: t1 was stopped, the call died at the ready t2, t3 still waits
C7_Witness ==
  /\ pc = "crashed" /\ status = "Exiting" /\ walk = <<1, 1>>
  /\ stop_count["t1"] = 1 /\ thread_status["t2"] = "Ready"
  /\ stop_count["t3"] = 0 /\ IsWaiting("t3")

\* free slots of the allocator, as <<page, slot>>
FreeSlots ==
  {ps \in (0 .. (Len(tls_slots) - 1)) \X Slots : ps[2] \notin tls_slots[ps[1] + 1]}
\* the lowest free slot of the lowest page that has one
FirstFit ==
  CHOOSE ps \in FreeSlots :
    \A qs \in FreeSlots : ps[1] < qs[1] \/ (ps[1] = qs[1] /\ ps[2] <= qs[2])
\* region_base + page * PAGE_SIZE + slot * TLS_ENTRY_SIZE
BlockAddress(page, slot) == tls_begin + page * 4096 + slot * 512

\* C8: allocate_tls is first-fit: it returns the lowest free slot of the
\* lowest page that has one and marks it, and appends a page (returning its
\* slot 0) only when every slot of every page is used.
C8_FirstFit ==
  [][(\E thread \in TlsThreads : MarkNextAvailableTLSSlotAsUsed(thread)) =>
       IF FreeSlots = {}
         THEN /\ Len(tls_slots') = Len(tls_slots) + 1
              /\ tls_ret' = BlockAddress(Len(tls_slots), 0)
              /\ tls_slots'[Len(tls_slots) + 1] = {0}
              /\ \A p \in 1 .. Len(tls_slots) : tls_slots'[p] = tls_slots[p]
         ELSE /\ Len(tls_slots') = Len(tls_slots)
              /\ tls_ret' = BlockAddress(FirstFit[1], FirstFit[2])
              /\ tls_slots' =
                   [tls_slots EXCEPT ![FirstFit[1] + 1] = @ \cup {FirstFit[2]}]]_vars

\* C8 witness: with page 1 in use, a freed slot of page 0 was handed out again
C8_Witness ==
  /\ Len(tls_slots) = 2 /\ tls_slots[2] # {} /\ tls_slots[1] = Slots
  /\ tls_ret # NoAddr /\ tls_ret < tls_begin + 4096 /\ tls_ret > tls_begin

\* the blocks whose bit is set
MarkedBlocks ==
  {BlockAddress(p, s) : p \in 0 .. (Len(tls_slots) - 1), s \in Slots}
    \ {BlockAddress(ps[1], ps[2]) : ps \in FreeSlots}

\* C9: a bit of tls_slots is set iff its block is allocated and not yet
\* freed, and allocate_tls never returns an address that is still allocated.
C9_BitIffAllocated ==
  [][/\ MarkedBlocks' = tls_in_use'
     /\ Cardinality(tls_in_use') = Len(tls_slots') * 8 - Cardinality(FreeSlots')
     /\ ((\E thread \in TlsThreads : MarkNextAvailableTLSSlotAsUsed(thread)) =>
           tls_ret' \notin tls_in_use)]_vars

\* C9 witness: page 1 exists, and page 0 has a freed slot between used ones
C9_Witness ==
  /\ Len(tls_slots) = 2 /\ tls_slots[2] = {0, 1} /\ tls_slots[1] = Slots \ {3}
  /\ tls_in_use = MarkedBlocks

\* the <<page, slot>> the last allocation marked
LastMarked ==
  CHOOSE ps \in (0 .. (Len(tls_slots) - 1)) \X Slots :
    /\ ps[2] \in tls_slots[ps[1] + 1]
    /\ (ps[1] + 1 > Len(tls_before) \/ ps[2] \notin tls_before[ps[1] + 1])

\* C10: free_tls of the address allocate_tls just returned resolves to the
\* <<page, slot>> that allocate_tls marked, clears that bit and no other, and
\* restores every occupancy bit to its value before the allocation.
C10_FreeInvertsAllocate ==
  [][(tls_ret # NoAddr /\ FreeTLSSlot(tls_ret)) =>
       /\ <<TLSPageOf(tls_ret), TLSSlotOf(tls_ret)>> = LastMarked
       /\ tls_slots' = [tls_slots EXCEPT ![LastMarked[1] + 1] = @ \ {LastMarked[2]}]
       /\ \A p \in 1 .. Len(tls_slots') :
            tls_slots'[p] = IF p <= Len(tls_before) THEN tls_before[p] ELSE {}]_vars

\* C10 witness: page 0 full, and the slot 0 of page 1 allocated by the ninth
\* call was freed by the tenth
C10_Witness ==
  /\ budget = MaxTLSOps - 10 /\ Len(tls_slots) = 2
  /\ tls_slots[1] = Slots /\ tls_slots[2] = {} /\ tls_ret = NoAddr

\* C11: the number of TLS pages never decreases and pages keep their index:
\* free_tls leaves the page count alone even when a page becomes all free,
\* changes no other page, and a block that stays allocated keeps its bit at
\* the same page and slot, hence its address.
C11_PagesPersist ==
  [][/\ Len(tls_slots') >= Len(tls_slots)
     /\ \A p \in 1 .. Len(tls_slots), sl \in Slots :
          (sl \in tls_slots[p] /\ BlockAddress(p - 1, sl) \in tls_in_use') =>
            sl \in tls_slots'[p]
     /\ \A tls_address \in tls_in_use :
          FreeTLSSlot(tls_address) =>
            /\ Len(tls_slots') = Len(tls_slots)
            /\ \A p \in 1 .. Len(tls_slots) : tls_slots'[p] \subseteq tls_slots[p]]_vars

\* C11 witness: page 1 lost its only block and is still there, and page 0 has
\* lost one too
C11_Witness ==
  /\ Len(tls_slots) = 2 /\ tls_slots[2] = {}
  /\ Cardinality(tls_slots[1]) = 7 /\ tls_ret = NoAddr

\* the capability state, as one record
CapState ==
  [svc_access_mask |-> svc_access_mask, handle_table_size |-> handle_table_size,
   flags_raw |-> flags_raw, kernel_version |-> kernel_version,
   address_mappings |-> address_mappings]

\* caps without its i-th word
WithoutWord(caps, i) == SubSeq(caps, 1, i - 1) \o SubSeq(caps, i + 1, Len(caps))
\* the word 0xFFFFFFFF
IsSentinelWord(w) == w = [type |-> 4095, low |-> 1048575]
\* a word the parser reads as a mapped memory range descriptor: 0xFF8 or 0xFF9
IsRangeWord(w) == w.type \in {4088, 4089}

\* C12 as stated: parsing an array gives the same capability state as parsing
\* it with any one of its sentinel words removed.
C12_SentinelRemovable ==
  [][ParseKernelCaps =>
       \A i \in 1 .. Len(kernel_caps) :
         IsSentinelWord(kernel_caps[i]) =>
           CapState' = ParseFrom(WithoutWord(kernel_caps, i), 1, CapState)]_vars

\* C12 amended: the same, for a sentinel that does not directly follow a
\* mapped memory range descriptor.
C12_SentinelRemovableUnlessAfterRange ==
  [][ParseKernelCaps =>
       \A i \in 1 .. Len(kernel_caps) :
         (IsSentinelWord(kernel_caps[i]) /\ (i = 1 \/ ~IsRangeWord(kernel_caps[i - 1]))) =>
           CapState' = ParseFrom(WithoutWord(kernel_caps, i), 1, CapState)]_vars

\* C12 witness: a range pair around a leading sentinel was parsed into a mapping
C12_Witness ==
  /\ kernel_caps = <<UnusedDescriptor, RangeStartDescriptor, RangeEndDescriptor>>
  /\ Len(address_mappings) = 1

\* a word the parser reads as a syscall mask descriptor: 0xF00 .. 0xF7F
IsSyscallWord(w) == w.type \in 3840 .. 3967
\* its group (bits 24..26) and its 24-bit field
GroupOf(w) == (w.type \div 16) % 8
FieldOf(w) == (w.type % 16) * 1048576 + w.low
\* the first k at which the field has run out or g * 24 + k is outside the mask
ScanEnd(w) ==
  CHOOSE n \in 0 .. 24 :
    /\ (FieldOf(w) \div (2 ^ n) = 0 \/ GroupOf(w) * 24 + n >= 128)
    /\ \A k \in 0 .. (n - 1) : FieldOf(w) \div (2 ^ k) # 0 /\ GroupOf(w) * 24 + k < 128
\* the mask after the descriptor: bit k of the field at g * 24 + k below ScanEnd
MaskAfter(mask, w) ==
  (mask \ {GroupOf(w) * 24 + k : k \in 0 .. (ScanEnd(w) - 1)})
    \cup {GroupOf(w) * 24 + k : k \in {j \in 0 .. (ScanEnd(w) - 1) : (FieldOf(w) \div (2 ^ j)) % 2 = 1}}

\* C13: a syscall mask descriptor with group g and field f gives bit g*24+k
\* the value of bit k of f for every k below the first one at which f >> k
\* is zero or g*24+k is outside the mask, and changes no other bit.
C13_SyscallMaskDescriptor ==
  [][ParseKernelCaps =>
       \A i \in 1 .. Len(kernel_caps) :
         (/\ IsSyscallWord(kernel_caps[i])
          /\ \A j \in 1 .. Len(kernel_caps) : j # i => ~IsSyscallWord(kernel_caps[j])) =>
           svc_access_mask' = MaskAfter(svc_access_mask, kernel_caps[i])]_vars

\* C13 witness: on the all-permitted mask, group 5 with bits 0 and 9 kept 120,
\* cleared 121..127 and stopped at 128
C13_Witness ==
  /\ kernel_caps = <<SyscallsTopDescriptor>>
  /\ budget = MaxParses - 1
  /\ svc_access_mask = 0 .. 120

\* the mask once the loop has gone through the first n words of the array
MaskAfterWords(n) == ParseFrom(SubSeq(kernel_caps, 1, n), 1, CapState).svc_access_mask

\* C14: the permitted syscalls are only ever narrowed: neither a whole parse
\* nor any single descriptor of the array it goes through turns a mask bit
\* from not-permitted back to permitted.
C14_MaskOnlyNarrows ==
  [][/\ svc_access_mask' \subseteq svc_access_mask
     /\ ParseKernelCaps =>
          \A n \in 1 .. Len(kernel_caps) : MaskAfterWords(n) \subseteq MaskAfterWords(n - 1)]_vars

RECURSIVE PositionsFrom(_, _)
\* the positions at which the loop classifies a word: a range word followed
\* by a range word takes its partner with it
PositionsFrom(caps, i) ==
  IF i > Len(caps)
    THEN {}
    ELSE {i} \cup PositionsFrom(caps,
                    IF IsRangeWord(caps[i]) /\ i + 1 <= Len(caps) /\ IsRangeWord(caps[i + 1])
                      THEN i + 2
                      ELSE i + 1)
\* the mapping of a range pair: A = start << 12, B = end << 12
RangeMapping(start, end) ==
  [address |-> start.low * 4096,
   size |-> IF start.low * 4096 < end.low * 4096 THEN end.low * 4096 - start.low * 4096 ELSE 0,
   read_only |-> start.type % 2 = 1,
   unk_flag |-> end.type % 2 = 1]
\* the capability state when the loop arrives at word i, and the words from j on
StateBefore(i) == ParseFrom(SubSeq(kernel_caps, 1, i - 1), 1, CapState)
WordsFrom(j) == SubSeq(kernel_caps, j, Len(kernel_caps))

\* C15: a range descriptor at position i followed by a range descriptor
\* appends exactly one mapping (start A, size B - A if A < B else 0,
\* read_only and unk_flag from bit 20 of the two words) and consumes both
\* words; with no range descriptor after it, it appends nothing and parsing
\* goes on at word i + 1 as if word i had not been there.
C15_RangePair ==
  [][ParseKernelCaps =>
       \A i \in PositionsFrom(kernel_caps, 1) :
         IsRangeWord(kernel_caps[i]) =>
           IF i + 1 <= Len(kernel_caps) /\ IsRangeWord(kernel_caps[i + 1])
             THEN CapState' =
                    ParseFrom(WordsFrom(i + 2), 1,
                      [StateBefore(i) EXCEPT
                         !.address_mappings =
                            Append(@, RangeMapping(kernel_caps[i], kernel_caps[i + 1]))])
             ELSE /\ CapState' = ParseFrom(WordsFrom(i + 1), 1, StateBefore(i))
                  /\ StateBefore(i + 1).address_mappings = StateBefore(i).address_mappings]_vars

\* C15 witness: a pair with A >= B recorded with size 0, then a range
\* descriptor with no partner that left nothing
C15_Witness ==
  /\ kernel_caps = <<RangeEndDescriptor, RangeStartDescriptor, RangeStartDescriptor>>
  /\ budget = MaxParses - 1
  /\ address_mappings =
       <<[address |-> 131072, size |-> 0, read_only |-> FALSE, unk_flag |-> TRUE]>>

\* after the step, a region at segment.addr + base_addr with these
\* permissions and this memory state, and that is the only region there
LeftMapped(segment, base_addr, permissions, memory_state) ==
  /\ \E r \in vm_map' :
       /\ r.addr = segment.addr + base_addr
       /\ r.size = segment.size
       /\ r.perm = permissions
       /\ r.state = memory_state
  /\ \A r \in vm_map' : r.addr = segment.addr + base_addr => r.perm = permissions

CallsOf(log, call) == {k \in 1 .. Len(log) : log[k].call = call}
\* positions of its ClearInstructionCache calls to one core
ClearsOf(log, core) == {k \in CallsOf(log, "ClearInstructionCache") : log[k].core = core}
\* positions of its successful MapMemoryBlock calls
MapsDone(log) == {k \in CallsOf(log, "MapMemoryBlock") : log[k].ok}

\* C17: a load_module call sends exactly one instruction-cache invalidation
\* to each of the four cores, each of them after all three segments have
\* been mapped and reprotected; when mapping a segment fails it sends none.
C17_OneClearPerCoreAfterMapping ==
  [][\A module_ \in CodeSets, base_addr \in BaseAddresses, failed \in 0 .. 3 :
       LoadModule(module_, base_addr, failed) =>
         IF failed = 0
           THEN /\ Cardinality(Cores) = 4
                /\ \A c \in Cores :
                     /\ Cardinality(ClearsOf(requests', c)) = 1
                     /\ icache_clears'[c] = icache_clears[c] + 1
                /\ Cardinality(MapsDone(requests')) = 3
                /\ Cardinality(CallsOf(requests', "Reprotect")) = 3
                /\ \A k \in CallsOf(requests', "ClearInstructionCache"),
                      j \in CallsOf(requests', "MapMemoryBlock")
                              \cup CallsOf(requests', "Reprotect") : j < k
           ELSE /\ CallsOf(requests', "ClearInstructionCache") = {}
                /\ icache_clears' = icache_clears
                /\ Cardinality(MapsDone(requests')) = failed - 1]_vars

\* C17 witness: two modules loaded, two invalidations on every core, the
\* last call of the second load an invalidation
C17_Witness ==
  /\ pc = "idle"
  /\ \A c \in Cores : icache_clears[c] = 2
  /\ Len(requests) = 10
  /\ requests[10].call = "ClearInstructionCache"

\* no page of tls_slots has a free slot
EveryPageFull == \A p \in 1 .. Len(tls_slots) : tls_slots[p] = Slots

\* C18: an allocation that has to append page p grows the thread's backing
\* storage by one page, refreshes the mappings and then makes one map
\* request, which maps the page just appended to that storage at
\* region_base + p * PAGE_SIZE; an allocation that finds a free slot grows
\* nothing and makes no refresh and no map request.
C18_NewPageMapped ==
  [][\A thread \in TlsThreads :
       MarkNextAvailableTLSSlotAsUsed(thread) =>
         IF EveryPageFull
           THEN /\ tls_memory' = [tls_memory EXCEPT ![thread] = @ + 1]
                /\ Len(requests') = 2
                /\ requests'[1] = [call |-> "RefreshMemoryBlockMappings", backing |-> thread]
                /\ requests'[2].call = "MapMemoryBlock"
                /\ requests'[2].target = tls_begin + Len(tls_slots) * 4096
                /\ requests'[2].backing = thread
                /\ requests'[2].size = 4096
                /\ requests'[2].offset = tls_memory[thread] * 4096
           ELSE /\ requests' = << >>
                /\ UNCHANGED <<tls_memory, refreshes, vm_map>>]_vars

\* the seven rows of the classification table, most specific first: a row
\* matches a type whose leading `bits' bits are those of its pattern
KindTable ==
  << [kind |-> "page", bits |-> 12, pattern |-> 4094],        \* 0xFFF / 0xFFE
     [kind |-> "range", bits |-> 11, pattern |-> 4088],       \* 0xFFE / 0xFF8
     [kind |-> "flags", bits |-> 9, pattern |-> 4080],        \* 0xFF8 / 0xFF0
     [kind |-> "handle_table", bits |-> 8, pattern |-> 4064], \* 0xFF0 / 0xFE0
     [kind |-> "version", bits |-> 7, pattern |-> 4032],      \* 0xFE0 / 0xFC0
     [kind |-> "syscalls", bits |-> 5, pattern |-> 3840],     \* 0xF80 / 0xF00
     [kind |-> "interrupts", bits |-> 4, pattern |-> 3584] >> \* 0xF00 / 0xE00
RowsMatching(type) ==
  {k \in 1 .. Len(KindTable) :
     type \div (2 ^ (12 - KindTable[k].bits))
       = KindTable[k].pattern \div (2 ^ (12 - KindTable[k].bits))}
\* the kind of the first matching row, "none" when no row matches
KindOf(type) ==
  IF RowsMatching(type) = {}
    THEN "none"
    ELSE KindTable[CHOOSE k \in RowsMatching(type) : \A j \in RowsMatching(type) : k <= j].kind
\* what the table says a word of a kind, alone in its array, does to the state
EffectOf(kind, w, st) ==
  CASE kind = "syscalls" ->
         [st EXCEPT !.svc_access_mask = MaskAfter(st.svc_access_mask, w)]
    [] kind = "handle_table" -> [st EXCEPT !.handle_table_size = w.low % 1024]
    [] kind = "flags" -> [st EXCEPT !.flags_raw = w.low % 65536]
    [] kind = "version" -> [st EXCEPT !.kernel_version = w.low % 65536]
    [] kind = "page" ->
         [st EXCEPT !.address_mappings =
            Append(@, [address |-> w.low * 4096, size |-> 4096,
                       read_only |-> FALSE, unk_flag |-> FALSE])]
    [] OTHER -> st

\* C19: at most one of the seven rows matches the 12-bit type of a word (the
\* arrays of one word go through every type 0 .. 4095), so a word is
\* given by the code the kind the table gives it most-specific-first, and a
\* word other than the sentinel that matches no row changes no capability
\* state.
C19_ClassificationOrderFree ==
  [][(ParseKernelCaps /\ Len(kernel_caps) = 1 /\ ~IsSentinelWord(kernel_caps[1])) =>
       /\ Cardinality(RowsMatching(kernel_caps[1].type)) <= 1
       /\ CapState' = EffectOf(KindOf(kernel_caps[1].type), kernel_caps[1], CapState)
       /\ RowsMatching(kernel_caps[1].type) = {} => CapState' = CapState]_vars

\* C19 witness: a word of the page row, which the code tests sixth and the
\* table first, applied as a page
C19_Witness ==
  /\ budget = MaxParses - 1
  /\ kernel_caps = <<[type |-> 4094, low |-> 515]>>
  /\ address_mappings =
       <<[address |-> 2109440, size |-> 4096, read_only |-> FALSE, unk_flag |-> FALSE]>>

\* C20: whenever status is Exited, is_signaled is true, so ShouldWait is
\* false for every thread and a thread that starts to wait on an exited
\* process does not block.
C20_ExitedIsSignaled ==
  status = "Exited" => (is_signaled /\ \A thread \in Waiters : ~ShouldWait(thread))

\* C20 witness: an exited process, signalled, whose last clear_signal was
\* refused
C20_Witness ==
  /\ status = "Exited"
  /\ is_signaled
  /\ result = ERR_INVALID_STATE
  /\ pc = "idle"

====
